---- MODULE Spec2Model ----
(***************************************************************************)
(* A state-machine model of the cookbook notebooks:                        *)
(*   "rag"  - Retrieval-Augmented Generation using Pinecone                *)
(*   "json" - Extracting Structured JSON using Claude and Tool Use         *)
(*   "pdf"  - "Uploading" PDFs to Claude via the API                       *)
(* One behaviour is one kernel session of one notebook.  A code cell that  *)
(* raises ends with the exception as its output; the kernel and its        *)
(* namespace survive, so the next cell can still be run.                   *)
(***************************************************************************)
EXTENDS Integers, Sequences, FiniteSets, TLC

\* ---------------------------------------------------------------- bounds
\* Full batches in the dataset file.
MaxBatches == 1
\* Content blocks in one Messages API response.
MaxBlocks == 2
\* Example cells run in one session of the structured-JSON notebook.
MaxExampleRuns == 2
\* Keywords the keyword completion may list.
MaxKeywords == 2

\* ------------------------------------------------------ program constants
batch_size == 100
sleep_seconds == 5
top_k_question == 5
top_k_keyword == 3

VARIABLES
    nb,          \* the notebook this kernel runs
    cell,        \* the code cell running, or the last one run (0: none yet)
    pc,          \* position inside the cell; "done" between cells
    ns,          \* names bound in the kernel namespace (those that can be unbound)
    cellError,   \* the uncaught exception that ended the cell, or "none"
    fault,       \* the latest failing operation of the cell, and whether it was caught
    calls,       \* the external calls the cell has issued so far (straight-line cells)
    file,        \* the dataset file on disk: [exists, n, bad]
    data,        \* rag: the list the dataset cell builds
    pinecone,    \* the vector database service: [exists, vectors]
    existing_indexes, \* rag: the listing the index cell took
    descriptions,\* rag: upload cell
    i,           \* rag: upload loop variable
    done,        \* rag: upload loop retry flag
    res,         \* rag: last successful embed response (survives iterations)
    slept,       \* rag: seconds slept since the last embed attempt was issued
    inflight,    \* requests issued and not yet answered
    upserted,    \* rag: batches whose upsert has returned, in order
    nQueries,    \* rag: index.query calls issued so far
    nKeywordGen, \* rag: keyword completions issued so far
    nAnswerGen,  \* rag: answer completions issued so far
    keyword_json,\* rag: the keyword completion, "{" prepended
    keywords_list,
    kw,          \* rag: position in keywords_list of the search loop
    results_list,
    prompt,      \* rag: the prompt of the last completion request
    ranking,     \* how the index service orders its matches (service-side)
    tools,       \* json: the tool list the last example cell defined
    response,    \* json: the last Messages API response content
    results,     \* json: the example result variables (name -> value)
    printed,     \* what the cell printed
    ran          \* json: example cells already run

vars == <<nb, cell, pc, ns, cellError, fault, calls, file, data, pinecone,
          existing_indexes,
          descriptions, i, done, res, slept, inflight, upserted, nQueries,
          nKeywordGen, nAnswerGen, keyword_json, keywords_list, kw,
          results_list, prompt, ranking, tools, response, results, printed, ran>>

\* ------------------------------------------------------------ exceptions
NoFault == [op |-> "none", exc |-> "none", caught |-> FALSE]
ApiErrors == {"RateLimitError", "APIConnectionError"}

Min(a, b) == IF a < b THEN a ELSE b

\* One step of a cell that leaves the cell by an uncaught exception.
Raise(op, exc) ==
    /\ fault' = [op |-> op, exc |-> exc, caught |-> FALSE]
    /\ cellError' = exc
    /\ pc' = "done"

\* A cell c can start when the cell before it has ended.
Ready(n, c) == nb = n /\ pc = "done" /\ cell = c - 1

\* Start of cell c.
Begin(c) == cell' = c

kernelVars == <<cell, pc, ns, cellError, fault, calls, printed>>
envVars == <<file, pinecone, ranking>>
uploadVars == <<existing_indexes, descriptions, i, done, res, slept, inflight, upserted>>
searchVars == <<nQueries, nKeywordGen, nAnswerGen, keyword_json,
                keywords_list, kw, results_list, prompt>>
jsonVars == <<tools, response, results, ran>>

\* ===================================================== the RAG notebook
\* ------------------------------------------------- inputs: dataset file
\* The file ends on a batch boundary or one line after it.
Remainders == {0, 1}
LineCounts == {k * batch_size + r : k \in 0..MaxBatches, r \in Remainders}
BadLineSets(n) == {{}, {1} \cap (1..n), 1..n}
Files ==
    {[exists |-> FALSE, n |-> 0, bad |-> {}]} \cup
    UNION {{[exists |-> TRUE, n |-> n, bad |-> b] : b \in BadLineSets(n)}
                : n \in LineCounts}

\* for line in file: try: data.append(eval(line)) except: pass
\* Line l of the file holds the record whose text is l; eval raises on a
\* line of f.bad.
ReadLines(f) ==
    LET lines == [l \in 1..f.n |-> l]
        Evals(l) == l \notin f.bad
        kept == SelectSeq(lines, Evals)
    IN  [j \in 1..Len(kept) |-> [text |-> kept[j]]]

\* Cell 3: download and load the dataset.
LoadDataset ==
    /\ Ready("rag", 3)
    /\ Begin(3)
    /\ calls' = <<>>
    /\ printed' = <<>>
    /\ IF ~file.exists
         THEN /\ Raise("open_dataset", "FileNotFoundError")
              /\ data' = <<>>
              /\ ns' = ns \cup {"data"}
         ELSE /\ data' = ReadLines(file)
              /\ ns' = ns \cup {"data", "df"}
              /\ fault' = IF file.bad # {}
                            THEN [op |-> "dataset_eval", exc |-> "SyntaxError",
                                  caught |-> TRUE]
                            ELSE NoFault
              /\ cellError' = "none"
              /\ pc' = "done"
    /\ UNCHANGED <<nb, envVars, uploadVars, searchVars, jsonVars>>

\* Cells that only import, assign literals or define functions:
\* 1 pip install, 2 API keys, 4 Pinecone client, 5 ServerlessSpec,
\* 10 Anthropic client and get_completion, 11 create_keyword_prompt,
\* 15 format_results and create_answer_prompt.
\* pdf: 1 pip install, 2 Anthropic client and MODEL_NAME, 5 get_completion.
\* json: 1 pip install, 2 imports, client and MODEL_NAME.
DefinitionCells(n) ==
    CASE n = "rag" -> {1, 2, 4, 5, 10, 11, 15}
      [] n = "pdf" -> {1, 2, 5}
      [] n = "json" -> {1, 2}
DefinitionCell ==
    /\ \E c \in DefinitionCells(nb) :
         /\ Ready(nb, c)
         /\ Begin(c)
    /\ calls' = <<>>
    /\ printed' = <<>>
    /\ fault' = NoFault
    /\ cellError' = "none"
    /\ UNCHANGED <<nb, pc, ns, data, envVars, uploadVars, searchVars, jsonVars>>

\* ------------------------------------------------- cell 6: index setup
index_name == "amazon-products"
\* IndexList without the test: create_index is called whether or not the
\* index is listed.
IndexListAlwaysCreate ==
    /\ Ready("rag", 6)
    /\ Begin(6)
    /\ calls' = <<"list_indexes">>
    /\ printed' = <<>>
    /\ \E out \in {"ok"} \cup ApiErrors :
         IF out = "ok"
           THEN /\ existing_indexes' =
                       (IF pinecone.exists THEN {index_name} ELSE {})
                /\ pc' = "create"
                /\ fault' = NoFault
                /\ cellError' = "none"
           ELSE /\ Raise("list_indexes", out)
                /\ UNCHANGED existing_indexes
    /\ UNCHANGED <<nb, ns, data, envVars, descriptions, i, done, res, slept,
                   inflight, upserted, searchVars, jsonVars>>

\* existing_indexes = [...pc.list_indexes()]; if index_name not in ...
IndexList ==
    /\ Ready("rag", 6)
    /\ Begin(6)
    /\ calls' = <<"list_indexes">>
    /\ printed' = <<>>
    /\ \E out \in {"ok"} \cup ApiErrors :
         IF out = "ok"
           THEN LET listing == IF pinecone.exists THEN {index_name} ELSE {}
                IN  /\ existing_indexes' = listing
                    /\ pc' = IF index_name \notin listing
                               THEN "create" ELSE "connect"
                    /\ fault' = NoFault
                    /\ cellError' = "none"
           ELSE /\ Raise("list_indexes", out)
                /\ UNCHANGED existing_indexes
    /\ UNCHANGED <<nb, ns, data, envVars, descriptions, i, done, res, slept,
                   inflight, upserted, searchVars, jsonVars>>

\* IndexCreate as a service that hands out a new index with vectors in it.
IndexCreateSeeded ==
    /\ nb = "rag" /\ cell = 6 /\ pc = "create"
    /\ calls' = Append(calls, "create_index")
    /\ \E out \in {"ok"} \cup ApiErrors :
         IF out = "ok"
           THEN /\ pinecone' = [exists |-> TRUE,
                                vectors |-> {[id |-> <<"legacy", 0>>,
                                              values |-> [of |-> 0,
                                                          as |-> "document"],
                                              metadata |-> [description |-> 0]]}]
                /\ pc' = "poll"
                /\ UNCHANGED <<fault, cellError>>
           ELSE /\ Raise("create_index", out)
                /\ UNCHANGED pinecone
    /\ UNCHANGED <<nb, cell, ns, printed, data, file, ranking, uploadVars,
                   searchVars, jsonVars>>

\* pc.create_index(index_name, dimension=1024, metric='dotproduct', spec=spec)
IndexCreate ==
    /\ nb = "rag" /\ cell = 6 /\ pc = "create"
    /\ calls' = Append(calls, "create_index")
    /\ \E out \in {"ok"} \cup ApiErrors :
         IF out = "ok"
           THEN /\ pinecone' = [exists |-> TRUE, vectors |-> {}]
                /\ pc' = "poll"
                /\ UNCHANGED <<fault, cellError>>
           ELSE /\ Raise("create_index", out)
                /\ UNCHANGED pinecone
    /\ UNCHANGED <<nb, cell, ns, printed, data, file, ranking, uploadVars,
                   searchVars, jsonVars>>

\* while not pc.describe_index(index_name).status['ready']: time.sleep(1)
\* The notebook never binds the name time.
IndexPoll ==
    /\ nb = "rag" /\ cell = 6 /\ pc = "poll"
    /\ calls' = Append(calls, "describe_index")
    /\ \E ready \in BOOLEAN :
         IF ready
           THEN /\ pc' = "connect"
                /\ UNCHANGED <<fault, cellError>>
           ELSE IF "time" \in ns
                  THEN /\ pc' = "poll"
                       /\ UNCHANGED <<fault, cellError>>
                  ELSE Raise("time.sleep", "NameError")
    /\ UNCHANGED <<nb, cell, ns, printed, data, envVars, uploadVars,
                   searchVars, jsonVars>>

\* index = pc.Index(index_name); time.sleep(1); index.describe_index_stats()
IndexConnect ==
    /\ nb = "rag" /\ cell = 6 /\ pc = "connect"
    /\ ns' = ns \cup {"index"}
    /\ IF "time" \in ns
         THEN /\ calls' = calls \o <<"Index", "describe_index_stats">>
              /\ printed' = <<[total_vector_count |->
                                   Cardinality(pinecone.vectors)]>>
              /\ pc' = "done"
              /\ UNCHANGED <<fault, cellError>>
         ELSE /\ calls' = Append(calls, "Index")
              /\ Raise("time.sleep", "NameError")
              /\ UNCHANGED printed
    /\ UNCHANGED <<nb, cell, data, envVars, uploadVars, searchVars, jsonVars>>

\* ------------------------------------------ the embedding service (Voyage)
Embedding(text, input_type) == [of |-> text, as |-> input_type]
\* One embedding per input text, in input order.
EmbedResponse(texts, input_type) ==
    [j \in 1..Len(texts) |-> Embedding(texts[j], input_type)]

\* Cell 7: vo = voyageai.Client(...); result = vo.embed(texts, ...)
VoyageSample ==
    /\ Ready("rag", 7)
    /\ Begin(7)
    /\ calls' = <<"embed">>
    /\ \E out \in {"ok"} \cup ApiErrors :
         IF out = "ok"
           THEN /\ printed' = EmbedResponse(<<"Sample text 1", "Sample text 2">>,
                                            "document")
                /\ fault' = NoFault
                /\ cellError' = "none"
                /\ pc' = "done"
           ELSE /\ Raise("sample_embed", out)
                /\ printed' = <<>>
    /\ UNCHANGED <<nb, ns, data, envVars, uploadVars, searchVars, jsonVars>>

\* ----------------------------------------------- cell 8: the upload loop
\* i_end one short of the next batch's start.
i_endShort(desc, k) == Min(Len(desc), k + batch_size - 1)
\* i_end = min(len(descriptions), i+batch_size)
i_end(desc, k) == Min(Len(desc), k + batch_size)
\* descriptions_batch = descriptions[i:i_end]
descriptions_batch(desc, k) == SubSeq(desc, k + 1, i_end(desc, k))

\* zip(ids_batch, embeds, metadata_batch): as long as the shortest.
Zip3(a, b, c) ==
    [j \in 1..Min(Len(a), Min(Len(b), Len(c))) |->
        [id |-> a[j], values |-> b[j], metadata |-> c[j]]]

\* to_upsert with ids numbered from 0 in every batch.
to_upsertBatchLocalIds(desc, k, r) ==
    LET embeds == r.embeddings
        ids_batch == [j \in 1..(i_end(desc, k) - k) |->
                         <<"description", j - 1>>]
        batch == descriptions_batch(desc, k)
        metadata_batch == [j \in 1..Len(batch) |-> [description |-> batch[j]]]
    IN  Zip3(ids_batch, embeds, metadata_batch)

\* ids_batch, metadata_batch, to_upsert of the iteration at k
to_upsert(desc, k, r) ==
    LET embeds == r.embeddings
        ids_batch == [j \in 1..(i_end(desc, k) - k) |->
                         <<"description", k + j - 1>>]
        batch == descriptions_batch(desc, k)
        metadata_batch == [j \in 1..Len(batch) |-> [description |-> batch[j]]]
    IN  Zip3(ids_batch, embeds, metadata_batch)

\* The index service stores one vector per id; an upsert replaces by id.
Upsert(vectors, triples) ==
    LET new == {triples[j] : j \in 1..Len(triples)}
        ids == {t.id : t \in new}
    IN  {v \in vectors : v.id \notin ids} \cup new

\* while not done: the next statement, by the flag
WhileNotDone(d) == IF d THEN "upsert" ELSE "embed"

\* from time import sleep; descriptions = df["text"].tolist(); for i in range(...)
UploadStart ==
    /\ Ready("rag", 8)
    /\ Begin(8)
    /\ calls' = <<>>
    /\ printed' = <<>>
    /\ ns' = ns \cup {"sleep"}
    /\ IF "df" \notin ns
         THEN /\ Raise("df", "NameError")
              /\ UNCHANGED <<descriptions, i, done>>
         ELSE IF data = <<>>
           THEN /\ Raise("df_text", "KeyError")
                /\ UNCHANGED <<descriptions, i, done>>
           ELSE /\ descriptions' = [j \in 1..Len(data) |-> data[j].text]
                /\ i' = 0
                /\ done' = FALSE
                /\ pc' = IF 0 < Len(data) THEN "embed" ELSE "done"
                /\ fault' = NoFault
                /\ cellError' = "none"
    /\ UNCHANGED <<nb, data, envVars, existing_indexes, res, slept, inflight,
                   upserted, searchVars, jsonVars>>

\* while not done: try: res = vo.embed(descriptions_batch, ...)   (request sent)
EmbedIssue ==
    /\ nb = "rag" /\ cell = 8 /\ pc = "embed"
    /\ ~done
    /\ inflight' = inflight \cup {[api |-> "embed", batch |-> i]}
    /\ slept' = 0
    /\ pc' = "embed_wait"
    /\ UNCHANGED <<existing_indexes, nb, cell, ns, cellError, fault, calls, printed, data,
                   envVars, descriptions, i, done, res, upserted,
                   searchVars, jsonVars>>

\* EmbedReturn as if the sleep sat in a finally clause: the loop sleeps
\* after a successful attempt too.
EmbedReturnThenSleep ==
    /\ nb = "rag" /\ cell = 8 /\ pc = "embed_wait"
    /\ inflight' = inflight \ {[api |-> "embed", batch |-> i]}
    /\ res' = [batch |-> i,
               embeddings |-> EmbedResponse(descriptions_batch(descriptions, i),
                                            "document")]
    /\ done' = TRUE
    /\ pc' = "sleep"
    /\ UNCHANGED <<existing_indexes, nb, cell, ns, cellError, fault, calls,
                   printed, data, envVars, descriptions, i, slept, upserted,
                   searchVars, jsonVars>>

\* ... the call returns: res is bound; done = True
EmbedReturn ==
    /\ nb = "rag" /\ cell = 8 /\ pc = "embed_wait"
    /\ inflight' = inflight \ {[api |-> "embed", batch |-> i]}
    /\ res' = [batch |-> i,
               embeddings |-> EmbedResponse(descriptions_batch(descriptions, i),
                                            "document")]
    /\ done' = TRUE
    /\ pc' = WhileNotDone(done')
    /\ UNCHANGED <<existing_indexes, nb, cell, ns, cellError, fault, calls, printed, data,
                   envVars, descriptions, i, slept, upserted,
                   searchVars, jsonVars>>

\* EmbedRaise with a cap of one attempt: the exception is caught and the
\* flag set, so the loop goes on without an embedding.
EmbedRaiseGiveUp ==
    /\ nb = "rag" /\ cell = 8 /\ pc = "embed_wait"
    /\ inflight' = inflight \ {[api |-> "embed", batch |-> i]}
    /\ \E e \in ApiErrors :
         fault' = [op |-> "upload_embed", exc |-> e, caught |-> TRUE]
    /\ done' = TRUE
    /\ pc' = "sleep"
    /\ UNCHANGED <<existing_indexes, nb, cell, ns, cellError, calls, printed,
                   data, envVars, descriptions, i, res, slept, upserted,
                   searchVars, jsonVars>>

\* EmbedRaise as "except RateLimitError:" would behave: any other exception
\* leaves the cell.
EmbedRaiseRateLimitOnly ==
    /\ nb = "rag" /\ cell = 8 /\ pc = "embed_wait"
    /\ inflight' = inflight \ {[api |-> "embed", batch |-> i]}
    /\ \E e \in ApiErrors :
         IF e = "RateLimitError"
           THEN /\ fault' = [op |-> "upload_embed", exc |-> e, caught |-> TRUE]
                /\ pc' = "sleep"
                /\ UNCHANGED cellError
           ELSE Raise("upload_embed", e)
    /\ UNCHANGED <<existing_indexes, nb, cell, ns, calls, printed, data,
                   envVars, descriptions, i, done, res, slept, upserted,
                   searchVars, jsonVars>>

\* ... the call raises: except: (a bare except, any exception)
EmbedRaise ==
    /\ nb = "rag" /\ cell = 8 /\ pc = "embed_wait"
    /\ inflight' = inflight \ {[api |-> "embed", batch |-> i]}
    /\ \E e \in ApiErrors :
         fault' = [op |-> "upload_embed", exc |-> e, caught |-> TRUE]
    /\ pc' = "sleep"
    /\ UNCHANGED <<existing_indexes, nb, cell, ns, cellError, calls, printed, data,
                   envVars, descriptions, i, done, res, slept, upserted,
                   searchVars, jsonVars>>

\* sleep(5), then the while condition again
Sleep ==
    /\ nb = "rag" /\ cell = 8 /\ pc = "sleep"
    /\ slept' = slept + sleep_seconds
    /\ pc' = WhileNotDone(done)
    /\ UNCHANGED <<existing_indexes, nb, cell, ns, cellError, fault, calls, printed, data,
                   envVars, descriptions, i, done, res, inflight, upserted,
                   searchVars, jsonVars>>

\* UpsertIssue as a fire-and-forget request: the loop goes on to the next
\* batch while the upsert is still outstanding.
UpsertIssueAsync ==
    /\ nb = "rag" /\ cell = 8 /\ pc = "upsert"
    /\ done
    /\ IF "index" \in ns
         THEN /\ inflight' = inflight \cup
                    {[api |-> "upsert", batch |-> i,
                      vectors |-> to_upsert(descriptions, i, res)]}
              /\ IF i + batch_size < Len(descriptions)
                   THEN /\ i' = i + batch_size
                        /\ done' = FALSE
                        /\ pc' = "embed"
                   ELSE /\ pc' = "upsert_wait"
                        /\ UNCHANGED <<i, done>>
              /\ UNCHANGED <<fault, cellError>>
         ELSE /\ Raise("index", "NameError")
              /\ UNCHANGED <<inflight, i, done>>
    /\ UNCHANGED <<existing_indexes, nb, cell, ns, calls, printed, data,
                   envVars, descriptions, res, slept, upserted, searchVars,
                   jsonVars>>

\* embeds, ids_batch, metadata_batch, to_upsert; index.upsert(vectors=to_upsert)
\* (request sent).  index is unbound when the index cell raised before binding it.
UpsertIssue ==
    /\ nb = "rag" /\ cell = 8 /\ pc = "upsert"
    /\ done
    /\ IF "index" \in ns
         THEN /\ inflight' = inflight \cup
                    {[api |-> "upsert", batch |-> i,
                      vectors |-> to_upsert(descriptions, i, res)]}
              /\ pc' = "upsert_wait"
              /\ UNCHANGED <<fault, cellError>>
         ELSE /\ Raise("index", "NameError")
              /\ UNCHANGED inflight
    /\ UNCHANGED <<existing_indexes, nb, cell, ns, calls, printed, data, envVars, descriptions,
                   i, done, res, slept, upserted, searchVars, jsonVars>>

\* ... the upsert returns; the for loop takes the next i, or ends
UpsertReturn ==
    /\ nb = "rag" /\ cell = 8 /\ pc = "upsert_wait"
    /\ \E r \in inflight :
         /\ r.api = "upsert"
         /\ inflight' = inflight \ {r}
         /\ pinecone' = [pinecone EXCEPT !.vectors = Upsert(@, r.vectors)]
         /\ upserted' = Append(upserted, r.batch)
    /\ IF i + batch_size < Len(descriptions)
         THEN /\ i' = i + batch_size
              /\ done' = FALSE
              /\ pc' = "embed"
         ELSE /\ pc' = "done"
              /\ UNCHANGED <<i, done>>
    /\ UNCHANGED <<existing_indexes, nb, cell, ns, cellError, fault, calls, printed, data,
                   file, ranking, descriptions, res, slept,
                   searchVars, jsonVars>>

\* UpsertRaise as if the upsert sat in a try/except that passes: the loop
\* goes on with the next batch.
UpsertRaiseSwallowed ==
    /\ nb = "rag" /\ cell = 8 /\ pc = "upsert_wait"
    /\ \E r \in inflight :
         /\ r.api = "upsert"
         /\ inflight' = inflight \ {r}
    /\ \E e \in ApiErrors :
         fault' = [op |-> "upsert", exc |-> e, caught |-> TRUE]
    /\ IF i + batch_size < Len(descriptions)
         THEN /\ i' = i + batch_size
              /\ done' = FALSE
              /\ pc' = "embed"
         ELSE /\ pc' = "done"
              /\ UNCHANGED <<i, done>>
    /\ UNCHANGED <<existing_indexes, nb, cell, ns, cellError, calls, printed,
                   data, envVars, descriptions, res, slept, upserted,
                   searchVars, jsonVars>>

\* ... the upsert raises: nothing catches it
UpsertRaise ==
    /\ nb = "rag" /\ cell = 8 /\ pc = "upsert_wait"
    /\ \E r \in inflight :
         /\ r.api = "upsert"
         /\ inflight' = inflight \ {r}
    /\ \E e \in ApiErrors : Raise("upsert", e)
    /\ UNCHANGED <<existing_indexes, nb, cell, ns, calls, printed, data, envVars, descriptions,
                   i, done, res, slept, upserted, searchVars, jsonVars>>

\* --------------------------------------------- the index service: query
\* The service's similarity order is its own: ranking says whether the
\* question's nearest neighbours are the lowest or the highest ids, and
\* keywords alternate around it.
Key(v) == 2 * v.id[2] + (IF v.id[1] = "description" THEN 0 ELSE 1)
Direction(q) ==
    IF q.kind = "question" \/ q.text % 2 = 1 THEN ranking
    ELSE IF ranking = "asc" THEN "desc" ELSE "asc"
MinOf(S) == CHOOSE x \in S : \A y \in S : x <= y
BestKey(keys, dir) ==
    IF dir = "asc" THEN MinOf(keys) ELSE 0 - MinOf({0 - x : x \in keys})
RECURSIVE TopKeys(_, _, _)
TopKeys(keys, dir, k) ==
    IF k = 0 \/ keys = {} THEN <<>>
    ELSE LET b == BestKey(keys, dir)
         IN  <<b>> \o TopKeys(keys \ {b}, dir, k - 1)
\* index.query(vector=..., top_k=k, include_metadata=True).matches
Matches(vectors, dir, k) ==
    LET top == TopKeys({Key(v) : v \in vectors}, dir, k)
        At(x) == CHOOSE v \in vectors : Key(v) = x
    IN  [j \in 1..Len(top) |->
            [id |-> At(top[j]).id, metadata |-> At(top[j]).metadata]]

\* Cell 9: question_embed = vo.embed([USER_QUESTION], ...); results = index.query(...)
QuestionQuery ==
    /\ Ready("rag", 9)
    /\ Begin(9)
    /\ \E e1 \in {"ok"} \cup ApiErrors, e2 \in {"ok"} \cup ApiErrors :
         IF e1 # "ok"
           THEN /\ calls' = <<"embed">>
                /\ Raise("question_embed", e1)
                /\ UNCHANGED <<nQueries, printed>>
           ELSE IF "index" \notin ns
             THEN /\ calls' = <<"embed">>
                  /\ Raise("index", "NameError")
                  /\ UNCHANGED <<nQueries, printed>>
             ELSE /\ calls' = <<"embed", "query">>
                  /\ nQueries' = nQueries + 1
                  /\ IF e2 # "ok"
                       THEN /\ Raise("query", e2)
                            /\ UNCHANGED printed
                       ELSE /\ printed' = Matches(pinecone.vectors,
                                   Direction([kind |-> "question", text |-> 0]),
                                   top_k_question)
                            /\ fault' = NoFault
                            /\ cellError' = "none"
                            /\ pc' = "done"
    /\ UNCHANGED <<nb, ns, data, envVars, uploadVars, nKeywordGen, nAnswerGen,
                   keyword_json, keywords_list, kw, results_list, prompt,
                   jsonVars>>

\* ------------------------------------------- keyword completion and JSON
\* A completion is a sequence of tokens.
Tok(t, key, value) == [t |-> t, key |-> key, value |-> value]
LBrace == Tok("{", "", <<>>)
RBrace == Tok("}", "", <<>>)
Pair(key, value) == Tok("pair", key, value)

KeywordLists == UNION {[1..n -> 1..MaxKeywords] : n \in 0..MaxKeywords}
\* What the model may answer to the keyword prompt, which ends "Assistant:{"
KeywordCompletions ==
    {<<Pair("keywords", l), RBrace>> : l \in KeywordLists}    \* as asked
    \cup {<<Pair("terms", <<1>>), RBrace>>,                   \* another property
          <<LBrace, Pair("keywords", <<1>>), RBrace>>,        \* the brace repeated
          <<Pair("keywords", <<1>>)>>}                        \* cut short

\* json.loads on a token sequence: one object with one property
JsonLoads(toks) ==
    IF /\ Len(toks) = 3
       /\ toks[1] = LBrace
       /\ toks[2].t = "pair"
       /\ toks[3] = RBrace
      THEN [ok |-> TRUE, key |-> toks[2].key, value |-> toks[2].value]
      ELSE [ok |-> FALSE, key |-> "", value |-> <<>>]

\* Cell 12: keyword_json = "{" + get_completion(create_keyword_prompt(USER_QUESTION))
KeywordGen ==
    /\ Ready("rag", 12)
    /\ Begin(12)
    /\ calls' = <<"completions.create">>
    /\ nKeywordGen' = nKeywordGen + 1
    /\ prompt' = [kind |-> "keyword", results |-> <<>>]
    /\ \/ /\ \E c \in KeywordCompletions :
               /\ keyword_json' = <<LBrace>> \o c
               /\ printed' = <<>>
          /\ ns' = ns \cup {"keyword_json"}
          /\ fault' = NoFault
          /\ cellError' = "none"
          /\ pc' = "done"
       \/ /\ \E e \in ApiErrors : Raise("keyword_completion", e)
          /\ UNCHANGED <<keyword_json, ns, printed>>
    /\ UNCHANGED <<nb, data, envVars, uploadVars, nQueries, nAnswerGen,
                   keywords_list, kw, results_list, jsonVars>>

\* Cell 13: data = json.loads(keyword_json); keywords_list = data['keywords']
ParseKeywords ==
    /\ Ready("rag", 13)
    /\ Begin(13)
    /\ calls' = <<>>
    /\ IF "keyword_json" \notin ns
         THEN /\ Raise("keyword_json", "NameError")
              /\ printed' = <<>>
              /\ UNCHANGED <<keywords_list, ns>>
         ELSE LET d == JsonLoads(keyword_json)
              IN  IF ~d.ok
                    THEN /\ Raise("json.loads", "JSONDecodeError")
                         /\ printed' = <<>>
                         /\ UNCHANGED <<keywords_list, ns>>
                    ELSE IF d.key # "keywords"
                      THEN /\ Raise("data_keywords", "KeyError")
                           /\ printed' = <<>>
                           /\ UNCHANGED <<keywords_list, ns>>
                      ELSE /\ keywords_list' = d.value
                           /\ printed' = <<d.value>>
                           /\ ns' = ns \cup {"keywords_list"}
                           /\ fault' = NoFault
                           /\ cellError' = "none"
                           /\ pc' = "done"
    /\ UNCHANGED <<nb, data, envVars, uploadVars, nQueries, nKeywordGen,
                   nAnswerGen, keyword_json, kw, results_list, prompt, jsonVars>>

\* ------------------------------------------ cell 14: keyword search loop
\* results_list = []; for keyword in keywords_list:
SearchStart ==
    /\ Ready("rag", 14)
    /\ Begin(14)
    /\ calls' = <<>>
    /\ results_list' = <<>>
    /\ ns' = ns \cup {"results_list"}
    /\ IF "keywords_list" \notin ns
         THEN /\ Raise("keywords_list", "NameError")
              /\ printed' = <<>>
              /\ UNCHANGED kw
         ELSE /\ kw' = 1
              /\ fault' = NoFault
              /\ cellError' = "none"
              /\ IF Len(keywords_list) = 0
                   THEN /\ pc' = "done"
                        /\ printed' = <<0>>
                   ELSE /\ pc' = "search"
                        /\ printed' = <<>>
    /\ UNCHANGED <<nb, data, envVars, uploadVars, nQueries, nKeywordGen,
                   nAnswerGen, keyword_json, keywords_list, prompt, jsonVars>>

\* AppendDescriptions as a de-duplicating append: a description already in
\* the list is not added again.
AppendDescriptionsUnique(list, matches) ==
    LET fresh(m) == \A j \in 1..Len(list) : list[j] # m.metadata.description
        kept == SelectSeq(matches, fresh)
    IN  list \o [j \in 1..Len(kept) |-> kept[j].metadata.description]

\* for search_result in search_results.matches:
\*     results_list.append(search_result['metadata']['description'])
AppendDescriptions(list, matches) ==
    list \o [j \in 1..Len(matches) |-> matches[j].metadata.description]

\* One iteration: embed the keyword, query the index, append the matches;
\* after the last keyword, print(len(results_list)).
SearchStep ==
    /\ nb = "rag" /\ cell = 14 /\ pc = "search"
    /\ \E e1 \in {"ok"} \cup ApiErrors, e2 \in {"ok"} \cup ApiErrors :
         IF e1 # "ok"
           THEN /\ calls' = Append(calls, "embed")
                /\ Raise("keyword_embed", e1)
                /\ UNCHANGED <<nQueries, results_list, kw, printed>>
           ELSE IF "index" \notin ns
             THEN /\ calls' = Append(calls, "embed")
                  /\ Raise("index", "NameError")
                  /\ UNCHANGED <<nQueries, results_list, kw, printed>>
             ELSE /\ calls' = calls \o <<"embed", "query">>
                  /\ nQueries' = nQueries + 1
                  /\ IF e2 # "ok"
                       THEN /\ Raise("query", e2)
                            /\ UNCHANGED <<results_list, kw, printed>>
                       ELSE /\ results_list' = AppendDescriptions(results_list,
                                   Matches(pinecone.vectors,
                                       Direction([kind |-> "keyword",
                                                  text |-> keywords_list[kw]]),
                                       top_k_keyword))
                            /\ kw' = kw + 1
                            /\ UNCHANGED <<fault, cellError>>
                            /\ IF kw = Len(keywords_list)
                                 THEN /\ pc' = "done"
                                      /\ printed' = <<Len(results_list')>>
                                 ELSE /\ pc' = "search"
                                      /\ UNCHANGED printed
    /\ UNCHANGED <<nb, cell, ns, data, envVars, uploadVars, nKeywordGen,
                   nAnswerGen, keyword_json, keywords_list, prompt, jsonVars>>

\* ------------------------------------------------ cell 15/16: the answer
\* format_results: the items joined by newlines inside <search_results>.
Txt(t, v) == [t |-> t, v |-> v]
\* Item with the index attribute taken from enumerate as it is, from 0.
ItemFromZero(k, r) ==
    <<Txt("<item index=", k - 1), Txt("\n", 0), Txt("<page_content>", 0),
      Txt("\n", 0), Txt("text", r), Txt("\n", 0), Txt("</page_content>", 0),
      Txt("\n", 0), Txt("</item>", 0)>>
Item(k, r) ==
    <<Txt("<item index=", k), Txt("\n", 0), Txt("<page_content>", 0),
      Txt("\n", 0), Txt("text", r), Txt("\n", 0), Txt("</page_content>", 0),
      Txt("\n", 0), Txt("</item>", 0)>>
RECURSIVE JoinItems(_, _)
JoinItems(extracted, k) ==
    IF k > Len(extracted) THEN <<>>
    ELSE (IF k > 1 THEN <<Txt("\n", 0)>> ELSE <<>>)
         \o Item(k, extracted[k]) \o JoinItems(extracted, k + 1)
format_results(extracted) ==
    <<Txt("\n", 0), Txt("<search_results>", 0), Txt("\n", 0)>>
    \o JoinItems(extracted, 1)
    \o <<Txt("\n", 0), Txt("</search_results>", 0)>>

\* AnswerGen as a pipeline with a feedback loop: once answered, control goes
\* back to before the keyword generation, which runs again.
AnswerGenWithFeedback ==
    /\ Ready("rag", 16)
    /\ cell' = 11
    /\ calls' = <<"completions.create">>
    /\ nAnswerGen' = nAnswerGen + 1
    /\ prompt' = [kind |-> "answer", results |-> format_results(results_list)]
    /\ \/ /\ printed' = <<"answer">>
          /\ fault' = NoFault
          /\ cellError' = "none"
          /\ pc' = "done"
       \/ /\ \E e \in ApiErrors : Raise("answer_completion", e)
          /\ printed' = <<>>
    /\ UNCHANGED <<nb, ns, data, envVars, uploadVars, nQueries, nKeywordGen,
                   keyword_json, keywords_list, kw, results_list, jsonVars>>

\* Cell 16: answer = get_completion(create_answer_prompt(results_list, USER_QUESTION))
AnswerGen ==
    /\ Ready("rag", 16)
    /\ Begin(16)
    /\ calls' = <<"completions.create">>
    /\ nAnswerGen' = nAnswerGen + 1
    /\ prompt' = [kind |-> "answer", results |-> format_results(results_list)]
    /\ \/ /\ printed' = <<"answer">>
          /\ fault' = NoFault
          /\ cellError' = "none"
          /\ pc' = "done"
       \/ /\ \E e \in ApiErrors : Raise("answer_completion", e)
          /\ printed' = <<>>
    /\ UNCHANGED <<nb, ns, data, envVars, uploadVars, nQueries, nKeywordGen,
                   keyword_json, keywords_list, kw, results_list, jsonVars>>

\* ===================================================== the PDF notebook
\* Cell 3: with open(file_name, "rb") as pdf_file: ... base64_string = ...
PdfRead ==
    /\ Ready("pdf", 3)
    /\ Begin(3)
    /\ calls' = <<>>
    /\ printed' = <<>>
    /\ IF file.exists
         THEN /\ ns' = ns \cup {"base64_string"}
              /\ fault' = NoFault
              /\ cellError' = "none"
              /\ pc' = "done"
         ELSE /\ Raise("open_pdf", "FileNotFoundError")
              /\ UNCHANGED ns
    /\ UNCHANGED <<nb, data, envVars, uploadVars, searchVars, jsonVars>>

\* Cell 4: prompt = ...; messages = [... "data": base64_string ...]
PdfMessages ==
    /\ Ready("pdf", 4)
    /\ Begin(4)
    /\ calls' = <<>>
    /\ printed' = <<>>
    /\ IF "base64_string" \in ns
         THEN /\ ns' = ns \cup {"messages"}
              /\ fault' = NoFault
              /\ cellError' = "none"
              /\ pc' = "done"
         ELSE /\ Raise("base64_string", "NameError")
              /\ UNCHANGED ns
    /\ UNCHANGED <<nb, data, envVars, uploadVars, searchVars, jsonVars>>

\* Cell 6: completion = get_completion(client, messages); print(completion)
PdfCompletion ==
    /\ Ready("pdf", 6)
    /\ Begin(6)
    /\ IF "messages" \notin ns
         THEN /\ calls' = <<>>
              /\ Raise("messages", "NameError")
              /\ printed' = <<>>
         ELSE /\ calls' = <<"messages.create">>
              /\ \E out \in {"ok"} \cup ApiErrors :
                   IF out = "ok"
                     THEN /\ printed' = <<"completion">>
                          /\ fault' = NoFault
                          /\ cellError' = "none"
                          /\ pc' = "done"
                     ELSE /\ Raise("messages.create", out)
                          /\ printed' = <<>>
    /\ UNCHANGED <<nb, ns, data, envVars, uploadVars, searchVars, jsonVars>>

\* ========================================= the structured-JSON notebook
\* JSON objects are sets of <<key, value>> pairs.
EmptyObj == {}
ObjOther == {<<"unrelated", "x">>}
\* A non-empty input for tool k, different for each tool.
Obj(k) == {<<"tool", k>>}
Objects(k) == {EmptyObj, Obj(k)}

\* A Python value that may be None.
None == [none |-> TRUE, v |-> {}]
Some(o) == [none |-> FALSE, v |-> o]
\* if x: -- None and the empty dict are falsy
Truthy(x) == ~x.none /\ x.v # {}

\* Each example's tool: its name and the levels of its input_schema (the
\* object itself, then the schema of the items of its array property).
Level(props, req) == [properties |-> props, required |-> req]
Tools(k) ==
    CASE k = 1 ->
           [name |-> "print_summary",
            input_schema |->
              <<Level({"author", "topics", "summary", "coherence", "persuasion"},
                      {"author", "topics", "summary", "coherence", "persuasion",
                       "counterpoint"})>>]
      [] k = 2 ->
           [name |-> "print_entities",
            input_schema |->
              <<Level({"entities"}, {"entities"}),
                Level({"name", "type", "context"}, {"name", "type", "context"})>>]
      [] k = 3 ->
           [name |-> "print_sentiment_scores",
            input_schema |->
              <<Level({"positive_score", "negative_score", "neutral_score"},
                      {"positive_score", "negative_score", "neutral_score"})>>]
      [] k = 4 ->
           [name |-> "print_classification",
            input_schema |->
              <<Level({"categories"}, {"categories"}),
                Level({"name", "score"}, {"name", "score"})>>]
      [] k = 5 ->
           [name |-> "print_all_characteristics",
            input_schema |-> <<Level({}, {})>>]
NoTools == [name |-> "", input_schema |-> <<>>]

\* The name the extraction loop compares with, the variable it assigns,
\* and the variable the success branch prints.
ToolName(k) == Tools(k).name
ResultVar(k) ==
    CASE k = 1 -> "json_summary"
      [] k = 2 -> "json_entities"
      [] k = 3 -> "json_sentiment"
      [] k = 4 -> "json_classification"
      [] k = 5 -> "tool_output"
PrintVar(k) ==
    CASE k = 1 -> "json_summary"
      [] k = 2 -> "json_entities"
      [] k = 3 -> "json_sentiment"
      [] k = 4 -> "json_classification"
      [] k = 5 -> "json_classification"
Header(k) ==
    CASE k = 1 -> "JSON Summary:"
      [] k = 2 -> "Extracted Entities (JSON):"
      [] k = 3 -> "Sentiment Analysis (JSON):"
      [] k = 4 -> "Text Classification (JSON):"
      [] k = 5 -> "Characteristics (JSON):"
Fallback(k) ==
    CASE k = 1 -> "No JSON summary found in the response."
      [] k = 2 -> "No entities found in the response."
      [] k = 3 -> "No sentiment analysis found in the response."
      [] k = 4 -> "No text classification found in the response."
      [] k = 5 -> "Something went wrong."
\* print(json.dumps(x, indent=2)); Example 2 prints the object itself.
Line(s) == [fmt |-> "str", text |-> s, value |-> None]
Render(k, x) ==
    IF k = 2 THEN [fmt |-> "repr", text |-> "", value |-> x]
    ELSE [fmt |-> "json.dumps indent=2", text |-> "", value |-> x]

\* Content blocks of a response.
TextBlock == [type |-> "text", name |-> "", input |-> EmptyObj]
ToolUse(name, input) == [type |-> "tool_use", name |-> name, input |-> input]
Blocks(k) ==
    {TextBlock, ToolUse("other_tool", ObjOther)}
    \cup {ToolUse(ToolName(k), o) : o \in Objects(k)}
Responses(k) == UNION {[1..n -> Blocks(k)] : n \in 0..MaxBlocks}

\* ExtractLoop without the break: every block is inspected and the last
\* matching one is kept.
RECURSIVE ExtractLoopLast(_, _, _)
ExtractLoopLast(content, name, j) ==
    IF j > Len(content)
      THEN [result |-> None, inspected |-> Len(content)]
      ELSE LET rest == ExtractLoopLast(content, name, j + 1)
           IN  IF /\ content[j].type = "tool_use"
                  /\ content[j].name = name
                  /\ rest.result.none
                 THEN [result |-> Some(content[j].input),
                       inspected |-> Len(content)]
                 ELSE rest

\* x = None; for content in response.content:
\*     if content.type == "tool_use" and content.name == name:
\*         x = content.input; break
RECURSIVE ExtractLoop(_, _, _)
ExtractLoop(content, name, j) ==
    IF j > Len(content)
      THEN [result |-> None, inspected |-> Len(content)]
      ELSE IF content[j].type = "tool_use" /\ content[j].name = name
        THEN [result |-> Some(content[j].input), inspected |-> j]
        ELSE ExtractLoop(content, name, j + 1)

ResultVars == {ResultVar(k) : k \in 1..5}

\* Example k (cell 2 + k), run once the setup cells have run.
ExampleCell(k) ==
    /\ nb = "json" /\ pc = "done" /\ cell >= 2
    /\ k \notin ran
    /\ Cardinality(ran) < MaxExampleRuns
    /\ ran' = ran \cup {k}
    /\ cell' = 2 + k
    /\ tools' = Tools(k)
    /\ LET before == IF k = 1 THEN <<"requests.get">> ELSE <<>>
       IN
       \/ /\ k = 1
          /\ calls' = before
          /\ Raise("requests.get", "ConnectionError")
          /\ printed' = <<>>
          /\ UNCHANGED <<response, results, ns>>
       \/ /\ calls' = Append(before, "messages.create")
          /\ \E e \in ApiErrors : Raise("messages.create", e)
          /\ printed' = <<>>
          /\ UNCHANGED <<response, results, ns>>
       \/ \E content \in Responses(k) :
            LET scan == ExtractLoop(content, ToolName(k), 1)
                bound == ns \cup {ResultVar(k)}
                vals == [results EXCEPT ![ResultVar(k)] = scan.result]
            IN  /\ calls' = Append(before, "messages.create")
                /\ response' = [content |-> content,
                                inspected |-> scan.inspected]
                /\ results' = vals
                /\ ns' = bound
                /\ IF Truthy(scan.result)
                     THEN IF PrintVar(k) \in bound
                            THEN /\ printed' =
                                      <<Line(Header(k)),
                                        Render(k, vals[PrintVar(k)])>>
                                 /\ fault' = NoFault
                                 /\ cellError' = "none"
                                 /\ pc' = "done"
                            ELSE /\ printed' = <<Line(Header(k))>>
                                 /\ Raise(PrintVar(k), "NameError")
                     ELSE /\ printed' = <<Line(Fallback(k))>>
                          /\ fault' = NoFault
                          /\ cellError' = "none"
                          /\ pc' = "done"
    /\ UNCHANGED <<nb, data, envVars, uploadVars, searchVars>>

\* ================================================================ runs
StaleVectors ==
    {[id |-> <<"legacy", 0>>, values |-> Embedding(0, "document"),
      metadata |-> [description |-> 0]],
     [id |-> <<"description", 0>>, values |-> Embedding(0, "document"),
      metadata |-> [description |-> 0]]}

Init ==
    /\ nb \in {"rag", "json", "pdf"}
    /\ cell = 0
    /\ pc = "done"
    /\ ns = {}
    /\ cellError = "none"
    /\ fault = NoFault
    /\ calls = <<>>
    /\ printed = <<>>
    /\ file \in (CASE nb = "rag" -> Files
                   [] nb = "pdf" -> {f \in Files : f.n = 0}
                   [] nb = "json" -> {f \in Files : ~f.exists})
    /\ existing_indexes = {}
    /\ pinecone \in (IF nb = "rag"
                       THEN {[exists |-> FALSE, vectors |-> {}],
                             [exists |-> TRUE, vectors |-> {}],
                             [exists |-> TRUE, vectors |-> StaleVectors]}
                       ELSE {[exists |-> FALSE, vectors |-> {}]})
    /\ ranking \in (IF nb = "rag" THEN {"asc", "desc"} ELSE {"asc"})
    /\ data = <<>>
    /\ descriptions = <<>>
    /\ i = 0
    /\ done = FALSE
    /\ res = [batch |-> -1, embeddings |-> <<>>]
    /\ slept = 0
    /\ inflight = {}
    /\ upserted = <<>>
    /\ nQueries = 0
    /\ nKeywordGen = 0
    /\ nAnswerGen = 0
    /\ keyword_json = <<>>
    /\ keywords_list = <<>>
    /\ kw = 0
    /\ results_list = <<>>
    /\ prompt = [kind |-> "none", results |-> <<>>]
    /\ tools = NoTools
    /\ response = [content |-> <<>>, inspected |-> 0]
    /\ results = [v \in ResultVars |-> None]
    /\ ran = {}

Next ==
    \/ DefinitionCell
    \/ LoadDataset
    \/ IndexList
    \/ IndexCreate
    \/ IndexPoll
    \/ IndexConnect
    \/ VoyageSample
    \/ UploadStart
    \/ EmbedIssue
    \/ EmbedReturn
    \/ EmbedRaise
    \/ Sleep
    \/ UpsertIssue
    \/ UpsertReturn
    \/ UpsertRaise
    \/ QuestionQuery
    \/ KeywordGen
    \/ ParseKeywords
    \/ SearchStart
    \/ SearchStep
    \/ AnswerGen
    \/ PdfRead
    \/ PdfMessages
    \/ PdfCompletion
    \/ \E k \in 1..5 : ExampleCell(k)

Spec == Init /\ [][Next]_vars

\* The notebook up to the end of the upload cell, with the kernel running
\* every statement it reaches, every request answered, and the embedding
\* call succeeding at some attempt if it is attempted again and again.
NextUpload ==
    \/ DefinitionCell
    \/ LoadDataset
    \/ IndexList
    \/ IndexCreate
    \/ IndexPoll
    \/ IndexConnect
    \/ VoyageSample
    \/ UploadStart
    \/ EmbedIssue
    \/ EmbedReturn
    \/ EmbedRaise
    \/ Sleep
    \/ UpsertIssue
    \/ UpsertReturn
    \/ UpsertRaise

FairUploadSpec ==
    /\ Init
    /\ [][NextUpload]_vars
    /\ WF_vars(EmbedIssue)
    /\ WF_vars(Sleep)
    /\ WF_vars(UpsertIssue)
    /\ WF_vars(UpsertReturn \/ UpsertRaise)
    /\ SF_vars(EmbedReturn)

\* ================================================================ claims
InUpload == nb = "rag" /\ cell = 8 /\ pc # "done"
EmbedInFlight(k) == [api |-> "embed", batch |-> k] \in inflight

\* C1: in the upload loop an embed call that raises, whatever the
\* exception, is followed by the sleep and then by another embed call for
\* the same batch; the loop leaves a batch's retry cycle only by an embed
\* call for that batch returning, never by giving up, skipping the batch or
\* going on to the upsert or the next batch.
C1_RetryStep ==
    /\ (InUpload /\ pc = "embed_wait" /\ pc' # "upsert") =>
          /\ pc' = "sleep"
          /\ fault'.op = "upload_embed" /\ fault'.caught
          /\ cellError' = "none"
          /\ i' = i /\ ~done' /\ inflight' = {}
    /\ (InUpload /\ pc = "sleep") =>
          /\ pc' = "embed" /\ i' = i /\ ~done' /\ slept' = sleep_seconds
    /\ (InUpload /\ pc = "embed") =>
          /\ pc' = "embed_wait" /\ i' = i /\ EmbedInFlight(i)'
    /\ (InUpload /\ pc \in {"embed", "embed_wait", "sleep"} /\ pc' = "upsert") =>
          /\ pc = "embed_wait" /\ done' /\ res'.batch = i /\ i' = i
    /\ (InUpload /\ i' # i) => pc = "upsert_wait"
C1_RetryUntilEmbedded == [][C1_RetryStep]_vars

\* A second batch being embedded again after an exception that is not a
\* rate-limit error.
C1_Witness ==
    /\ InUpload /\ pc = "embed_wait" /\ EmbedInFlight(batch_size)
    /\ i = batch_size
    /\ fault.op = "upload_embed" /\ fault.caught
    /\ fault.exc = "APIConnectionError"
    /\ slept = 0

\* The batches of a list of n texts, by their first position.
BatchStarts(n) == {k \in 0..n : k % batch_size = 0 /\ k < n}
UploadEnded == nb = "rag" /\ cell = 8 /\ pc = "done"

\* C2: the retry loop has no cap.  While the current batch has no
\* embedding the cell cannot end, and an upsert is only ever issued for a
\* batch whose embed call has returned, all earlier batches upserted; when
\* every embed call that is retried for ever succeeds at some attempt, the
\* cell ends, and when it ends without an exception (every upsert
\* succeeded) every batch has been upserted, in order.
C2_Inv ==
    /\ InUpload =>
          /\ i = Len(upserted) * batch_size
          /\ \A r \in inflight :
                r.api = "upsert" => r.batch = i /\ done /\ res.batch = i
    /\ \A j \in 1..Len(upserted) : upserted[j] = (j - 1) * batch_size
    /\ (UploadEnded /\ cellError = "none") =>
          {upserted[j] : j \in 1..Len(upserted)} = BatchStarts(Len(descriptions))
C2_Step == (InUpload /\ ~done) => (cell' = 8 /\ pc' # "done")
C2_NoCapAndTermination ==
    /\ []C2_Inv
    /\ [][C2_Step]_vars
    /\ (InUpload ~> UploadEnded)

\* Two batches uploaded although an embed call had failed.
C2_Witness ==
    /\ UploadEnded /\ cellError = "none"
    /\ upserted = <<0, batch_size>>
    /\ fault.op = "upload_embed"

\* C3 as stated: except for the embed call of the upload loop, a failing
\* operation is never caught: its exception leaves the cell uncaught.
Propagated ==
    /\ ~fault.caught
    /\ cellError = fault.exc
    /\ pc = "done"
C3_OnlyEmbedCaught ==
    fault.op \notin {"none", "upload_embed"} => Propagated

\* C3 as amended: the exceptions of two operations are caught, the embed
\* call of the upload loop and the eval of a line of the dataset file;
\* every other failing operation (opening the dataset file, json.loads, the
\* 'keywords' key, an upsert, a query, a completion, opening the PDF, an
\* unbound name) leaves the cell as an uncaught exception.
C3_CaughtOnlyEmbedAndEval ==
    /\ fault.op \in {"upload_embed", "dataset_eval"} =>
          fault.caught /\ cellError = "none"
    /\ fault.op \notin {"none", "upload_embed", "dataset_eval"} => Propagated

\* Malformed JSON in the keyword completion has stopped the parsing cell.
C3_Witness ==
    /\ nb = "rag" /\ cell = 13 /\ pc = "done"
    /\ fault.op = "json.loads"
    /\ cellError = "JSONDecodeError"
    /\ "keywords_list" \notin ns

UpsertInFlight(k) == \E r \in inflight : r.api = "upsert" /\ r.batch = k

\* C4: during the upload loop at most one request is outstanding; an upsert
\* of batch k is outstanding only when an embed call for batch k has
\* returned (res holds its embeddings and done is set), and an embed call for
\* the batch after k is outstanding only when the upsert of k has returned
\* (k is the last entry of upserted); upserts return in batch order.
C4_OneRequestInOrder ==
    /\ Cardinality(inflight) <= 1
    /\ inflight # {} => InUpload /\ pc \in {"embed_wait", "upsert_wait"}
    /\ \A r \in inflight :
         /\ r.batch = i
         /\ r.api = "upsert" =>
              /\ done
              /\ res.batch = r.batch
              /\ r.batch \notin {upserted[j] : j \in 1..Len(upserted)}
         /\ r.api = "embed" =>
              /\ ~done
              /\ IF r.batch = 0
                   THEN upserted = <<>>
                   ELSE /\ upserted # <<>>
                        /\ upserted[Len(upserted)] = r.batch - batch_size
    /\ \A j \in 1..Len(upserted) : upserted[j] = (j - 1) * batch_size

\* The embed call of the second batch is outstanding, alone, after the
\* upsert of the first batch has returned.
C4_Witness ==
    /\ InUpload
    /\ inflight = {[api |-> "embed", batch |-> batch_size]}
    /\ upserted = <<0>>
    /\ res.batch = 0
    /\ fault.op = "none"

\* The stages of the RAG notebook, by cell: 8 uploads, 9 queries with the
\* question, 12 generates the keywords, 14 queries per keyword, 16 answers.
C5_Inv ==
    nb = "rag" =>
      /\ nKeywordGen = (IF cell >= 12 THEN 1 ELSE 0)
      /\ nAnswerGen = (IF cell >= 16 THEN 1 ELSE 0)
      /\ cell < 9 => nQueries = 0
      /\ cell < 14 => nQueries <= 1
      /\ cell >= 9 => inflight = {}
C5_Step ==
    nb = "rag" =>
      /\ cell' >= cell
      /\ (inflight' # inflight \/ upserted' # upserted) =>
            nQueries = 0 /\ nKeywordGen = 0 /\ nAnswerGen = 0
      /\ nQueries' # nQueries =>
            /\ cell' \in {9, 14}
            /\ inflight = {}
            /\ nAnswerGen = 0
            /\ cell' = 14 => nKeywordGen = 1
      /\ nKeywordGen' # nKeywordGen => cell' = 12 /\ nKeywordGen = 0
      /\ nAnswerGen' # nAnswerGen =>
            cell = 15 /\ cell' = 16 /\ nAnswerGen = 0 /\ pc = "done"
      /\ cell >= 9 => UNCHANGED <<pinecone, upserted, descriptions, res>>
      /\ cell >= 12 /\ cell' > 12 => UNCHANGED keyword_json
      /\ cell >= 13 /\ cell' > 13 => UNCHANGED keywords_list
      /\ cell >= 14 /\ pc = "done" => UNCHANGED <<results_list, nQueries>>

\* C5: the RAG notebook run in cell order is a forward pipeline: cells never
\* go back; every document embed/upsert is over before the first query; the
\* keyword generation happens once, before every per-keyword query; the
\* answer generation happens once, after the keyword search loop has ended;
\* and what a stage produced is not changed by a later stage.
C5_ForwardPipeline == []C5_Inv /\ [][C5_Step]_vars

\* The answer has been generated after two batches were uploaded and the
\* question and two keywords were queried.
C5_Witness ==
    /\ nb = "rag" /\ cell = 16 /\ pc = "done" /\ cellError = "none"
    /\ upserted = <<0, batch_size>>
    /\ Len(keywords_list) = 2
    /\ nQueries = 3
    /\ nKeywordGen = 1 /\ nAnswerGen = 1
    /\ prompt.kind = "answer"

IsPrefix(s, t) == Len(s) <= Len(t) /\ SubSeq(t, 1, Len(s)) = s
RECURSIVE Repeat(_, _)
Repeat(s, n) == IF n = 0 THEN <<>> ELSE s \o Repeat(s, n - 1)

\* The call sites of each cell in the order of its text; the upload loop's
\* requests are followed in inflight, not in calls.
NominalCalls ==
    CASE nb = "rag" /\ cell = 6 ->
           <<"list_indexes", "create_index", "describe_index", "Index",
             "describe_index_stats">>
      [] nb = "rag" /\ cell = 7 -> <<"embed">>
      [] nb = "rag" /\ cell = 9 -> <<"embed", "query">>
      [] nb = "rag" /\ cell \in {12, 16} -> <<"completions.create">>
      [] nb = "rag" /\ cell = 14 ->
           Repeat(<<"embed", "query">>, Len(keywords_list))
      [] nb = "pdf" /\ cell = 6 -> <<"messages.create">>
      [] nb = "json" /\ cell = 3 -> <<"requests.get", "messages.create">>
      [] nb = "json" /\ cell > 3 -> <<"messages.create">>
      [] OTHER -> <<>>
FollowsCalls(expected) ==
    /\ IsPrefix(calls, expected)
    /\ (pc = "done" /\ cellError = "none") => calls = expected

\* C6 as stated: a cell issues one sequence of API calls whatever the calls
\* returned and whatever the state of the services (an exception cuts the
\* sequence short); one call per keyword is counted as one sequence.
C6_SameCallsEveryRun == FollowsCalls(NominalCalls)

\* With the index listed, the index-setup cell goes from list_indexes
\* straight to Index.
ExpectedCalls ==
    IF nb = "rag" /\ cell = 6 /\ index_name \in existing_indexes
      THEN <<"list_indexes", "Index", "describe_index_stats">>
      ELSE NominalCalls

\* C6 as amended: the index-setup cell branches on the listing returned by
\* list_indexes: it calls create_index and then describe_index only when the
\* index name is not listed, and goes straight to Index when it is; the
\* keyword search issues one embed and one query per keyword of the
\* completion; every other cell, the tool-use extraction cells included,
\* issues its calls in one order whatever they return.
C6_CallsBranchOnListingOnly == FollowsCalls(ExpectedCalls)

\* The index was not listed: it was created and polled before Index.
C6_Witness ==
    /\ nb = "rag" /\ cell = 6 /\ pc = "done"
    /\ existing_indexes = {}
    /\ calls = <<"list_indexes", "create_index", "describe_index", "Index">>

\* An example cell whose API calls returned: response is its own response.
Answered(k) ==
    /\ nb = "json" /\ cell = 2 + k
    /\ fault.op \notin {"requests.get", "messages.create"}
\* The blocks of a response that the extraction of example k looks for.
MatchingBlocks(k, content) ==
    {j \in 1..Len(content) :
        content[j].type = "tool_use" /\ content[j].name = Tools(k).name}
FirstMatch(k, content) ==
    CHOOSE j \in MatchingBlocks(k, content) :
        \A m \in MatchingBlocks(k, content) : j <= m
\* What example k prints when only its own response counts.
OwnInput(k, content) ==
    IF MatchingBlocks(k, content) = {} THEN None
    ELSE Some(content[FirstMatch(k, content)].input)
OwnOutput(k, content) ==
    IF Truthy(OwnInput(k, content))
      THEN <<Line(Header(k)), Render(k, OwnInput(k, content))>>
      ELSE <<Line(Fallback(k))>>

\* C7: each example cell, run after the setup cell in any order and any
\* subset, prints on completion what its own response determines, whatever
\* the other examples left behind.
C7_OwnResponseOnly ==
    \A k \in 1..5 :
        (Answered(k) /\ cellError = "none") =>
            printed = OwnOutput(k, response.content)

\* C8: in Example 5, when the response holds a print_all_characteristics
\* block and the header "Characteristics (JSON):" is printed, the JSON
\* printed under it is the input of that block.
C8_PrintsOwnCharacteristics ==
    (/\ Answered(5)
     /\ MatchingBlocks(5, response.content) # {}
     /\ printed # <<>>
     /\ printed[1] = Line(Header(5))) =>
        /\ Len(printed) = 2
        /\ printed[2].value = OwnInput(5, response.content)

\* C9: in the input_schema of every tool the notebook defines, at every
\* level, each field listed in required is declared in properties.
C9_RequiredDeclared ==
    \A j \in 1..Len(tools.input_schema) :
        tools.input_schema[j].required \subseteq
            tools.input_schema[j].properties

\* C10: after the extraction loop of an example, the result variable is
\* None when no block is a tool_use block with the example's tool name, and
\* otherwise the input of the first such block in response order; a text
\* block or a tool_use block of another name is never the one selected, and
\* no block after the first match is inspected.
C10_FirstMatchingToolUse ==
    \A k \in 1..5 :
        Answered(k) =>
            LET content == response.content
                result == results[ResultVar(k)]
                M == MatchingBlocks(k, content)
            IN  IF M = {}
                  THEN result = None /\ response.inspected = Len(content)
                  ELSE \E j \in M :
                         /\ \A m \in 1..(j - 1) : m \notin M
                         /\ result = Some(content[j].input)
                         /\ response.inspected = j

\* Example 3 received two print_sentiment_scores blocks: the first one's
\* input was taken and the second was not inspected.
C10_Witness ==
    /\ Answered(3)
    /\ response.content = <<ToolUse(ToolName(3), Obj(3)),
                            ToolUse(ToolName(3), EmptyObj)>>
    /\ results[ResultVar(3)] = Some(Obj(3))
    /\ response.inspected = 1
    /\ printed = <<Line(Header(3)), Render(3, Some(Obj(3)))>>

\* The index-setup cell is over and has bound index to the connected index.
IndexCellConnected ==
    nb = "rag" /\ cell = 6 /\ pc = "done" /\ "index" \in ns
InCalls(name) == \E j \in 1..Len(calls) : calls[j] = name

\* C11 as stated: whenever the index-setup cell is over with the index
\* connected, the index holds zero vectors.
C11_ZeroVectorsAfterSetup ==
    IndexCellConnected => Cardinality(pinecone.vectors) = 0

C11_Inv ==
    (IndexCellConnected /\ InCalls("create_index")) => pinecone.vectors = {}
C11_Step ==
    (nb = "rag" /\ cell' = 6 /\ index_name \in existing_indexes') =>
        pinecone' = pinecone
\* C11 as amended: the connected index holds zero vectors when the cell
\* created it (the name was not listed); when the name was listed the cell
\* creates nothing and connects to the index as it is, with the vectors it
\* already held.
C11_ZeroVectorsWhenCreated == []C11_Inv /\ [][C11_Step]_vars

\* The index was not listed, was created and is connected, empty.
C11_Witness ==
    /\ IndexCellConnected
    /\ InCalls("create_index") /\ InCalls("Index")
    /\ ~(index_name \in existing_indexes)
    /\ pinecone = [exists |-> TRUE, vectors |-> {}]

\* The descriptions of the matches the index returns for the first n
\* keywords, keyword after keyword, each in the rank order of its query.
RECURSIVE KeywordResults(_)
KeywordResults(n) ==
    IF n = 0 THEN <<>>
    ELSE LET ranked == Matches(pinecone.vectors,
                               Direction([kind |-> "keyword",
                                          text |-> keywords_list[n]]),
                               top_k_keyword)
         IN  KeywordResults(n - 1)
             \o [j \in 1..Len(ranked) |-> ranked[j].metadata.description]
SearchEnded ==
    nb = "rag" /\ cell = 14 /\ pc = "done" /\ cellError = "none"

\* C12: in the keyword search cell results_list holds, for the keywords
\* searched so far in keywords_list order, the descriptions of each
\* keyword's matches in the rank order of its query; once the loop is over
\* every keyword has been searched, the length is at most top_k = 3 per
\* keyword and exactly that when the index holds at least 3 vectors,
\* descriptions matched by several keywords appear once per keyword, and the
\* length is what the cell prints.
C12_ResultsPerKeyword ==
    /\ (nb = "rag" /\ cell = 14 /\ "keywords_list" \in ns) =>
          /\ kw - 1 \in 0..Len(keywords_list)
          /\ results_list = KeywordResults(kw - 1)
    /\ SearchEnded =>
          /\ kw - 1 = Len(keywords_list)
          /\ Len(results_list) <= top_k_keyword * Len(keywords_list)
          /\ Cardinality(pinecone.vectors) >= top_k_keyword =>
                Len(results_list) = top_k_keyword * Len(keywords_list)
          /\ printed = <<Len(results_list)>>

\* The same keyword twice over a full index: six descriptions, the second
\* three repeating the first three.
C12_Witness ==
    /\ SearchEnded
    /\ keywords_list = <<1, 1>>
    /\ Cardinality(pinecone.vectors) >= top_k_keyword
    /\ Len(results_list) = 6
    /\ SubSeq(results_list, 1, 3) = SubSeq(results_list, 4, 6)

\* The triple of description position j (from 0): its id, the embedding of
\* its text as a document, and its text as metadata.
TripleOf(j) ==
    [id |-> <<"description", j>>,
     values |-> [of |-> descriptions[j + 1], as |-> "document"],
     metadata |-> [description |-> descriptions[j + 1]]]
BatchPositions(k) ==
    {j \in 0..(Len(descriptions) - 1) : k <= j /\ j < k + batch_size}
UploadComplete == UploadEnded /\ cellError = "none"

\* C13: every upsert request carries, for the positions of its batch and in
\* their order, the triples (description_j, embedding returned for
\* descriptions[j], descriptions[j]), so its ids are pairwise distinct; no
\* batch is sent twice; and when the upload is over the index holds for
\* every position j exactly one vector with id description_j, that triple.
C13_OneTriplePerDescription ==
    /\ \A r \in inflight :
         r.api = "upsert" =>
           /\ Len(r.vectors) = Cardinality(BatchPositions(r.batch))
           /\ \A j \in 1..Len(r.vectors) :
                r.vectors[j] = TripleOf(r.batch + j - 1)
           /\ \A j \in 1..Len(upserted) : upserted[j] # r.batch
    /\ \A a, b \in 1..Len(upserted) : a # b => upserted[a] # upserted[b]
    /\ InUpload =>
         \A a \in 1..Len(upserted) :
            \A j \in BatchPositions(upserted[a]) :
               {v \in pinecone.vectors : v.id = <<"description", j>>}
                   = {TripleOf(j)}
    /\ UploadComplete =>
         \A j \in 0..(Len(descriptions) - 1) :
            {v \in pinecone.vectors : v.id = <<"description", j>>}
                = {TripleOf(j)}

\* Two batches were uploaded over an index that held a vector under
\* description_0: position 0 and position batch_size hold their own triples.
C13_Witness ==
    /\ UploadComplete
    /\ Len(descriptions) = batch_size + 1
    /\ upserted = <<0, batch_size>>
    /\ TripleOf(0) \in pinecone.vectors
    /\ TripleOf(batch_size) \in pinecone.vectors
    /\ \E v \in pinecone.vectors : v.id[1] = "legacy"

Ceil(n, b) == (n + b - 1) \div b
\* The batches of the starts in a sequence, one after the other.
RECURSIVE ConcatBatches(_, _)
ConcatBatches(starts, n) ==
    IF n = 0 THEN <<>>
    ELSE ConcatBatches(starts, n - 1)
         \o descriptions_batch(descriptions, starts[n])

\* C14: the batches of the upload loop partition the description list: the
\* batch at start i begins where the previous one ended, holds between 1 and
\* batch_size texts and fewer than batch_size only when it is the last; the
\* batches uploaded so far, in order, are the list up to the current
\* position; a completed upload has made exactly ceil(n / batch_size)
\* batches which put together are the whole list; with no description no
\* request is ever made.
C14_BatchesPartition ==
    LET n == Len(descriptions)
    IN
    /\ InUpload =>
         LET batch == descriptions_batch(descriptions, i)
         IN  /\ i % batch_size = 0 /\ i < n
             /\ Len(batch) \in 1..batch_size
             /\ Len(batch) < batch_size => i + Len(batch) = n
             /\ batch = [j \in 1..Len(batch) |-> descriptions[i + j]]
             /\ Len(upserted) \in {i \div batch_size, i \div batch_size + 1}
             /\ ConcatBatches(upserted, Len(upserted))
                   = SubSeq(descriptions, 1,
                            Min(n, Len(upserted) * batch_size))
    /\ UploadComplete =>
         /\ Len(upserted) = Ceil(n, batch_size)
         /\ ConcatBatches(upserted, Len(upserted)) = descriptions
    /\ (nb = "rag" /\ n = 0) => inflight = {} /\ upserted = <<>>

\* One full batch and a last batch of one text were uploaded.
C14_Witness ==
    /\ UploadComplete
    /\ Len(descriptions) = batch_size + 1
    /\ Len(upserted) = 2
    /\ Len(descriptions_batch(descriptions, upserted[1])) = batch_size
    /\ Len(descriptions_batch(descriptions, upserted[2])) = 1

\* slept is the time slept since the last embed attempt was issued.
C15_Inv ==
    InUpload =>
      /\ slept \in {0, sleep_seconds}
      /\ pc \in {"embed_wait", "sleep", "upsert", "upsert_wait"} => slept = 0
      /\ (pc = "embed" /\ slept = sleep_seconds) =>
            ~done /\ fault.op = "upload_embed" /\ fault.caught
C15_Step ==
    InUpload =>
      /\ (pc = "embed_wait" /\ pc' # pc) =>
            /\ slept' = 0
            /\ IF done' THEN pc' = "upsert" ELSE pc' = "sleep" /\ i' = i
      /\ pc = "sleep" =>
            /\ ~done
            /\ pc' = "embed" /\ i' = i /\ ~done'
            /\ slept' = slept + sleep_seconds
            /\ inflight' = {}

\* C15: in the retry loop a failed embed attempt is followed by exactly one
\* sleep of sleep_seconds = 5 and then by the next attempt for the same
\* batch, the same after any number of failures; a successful attempt is
\* followed by the upsert without any sleep.
C15_OneFixedSleepBetweenAttempts == []C15_Inv /\ [][C15_Step]_vars

\* The second batch is about to be attempted again after one sleep.
C15_Witness ==
    /\ InUpload /\ pc = "embed"
    /\ i = batch_size
    /\ slept = sleep_seconds
    /\ upserted = <<0>>
    /\ ~done

\* C16: the index-setup cell calls create_index only when the name is not
\* in the listing taken at its start and always then; it connects to an
\* index it created only after a describe_index poll; and a poll that finds
\* the index not ready is followed by a sleep and another poll, so the cell
\* never ends between the first poll and the connection.
C16_CreateIffAbsentThenPoll ==
    (nb = "rag" /\ cell = 6) =>
      /\ InCalls("create_index") => ~(index_name \in existing_indexes)
      /\ (InCalls("Index") /\ ~(index_name \in existing_indexes)) =>
            InCalls("create_index") /\ InCalls("describe_index")
      /\ (pc = "done" /\ InCalls("describe_index")) => InCalls("Index")

\* The success branch of example k prints its header first, the other
\* branch prints the fallback message only.
SuccessBranch(k) == printed # <<>> /\ printed[1] = Line(Header(k))

\* C17: in every example whose API call returned, the success branch is
\* taken exactly when the response holds a tool_use block with the
\* example's tool name, whatever the input of that block (an empty object
\* included); with no such block the result variable is None and the cell
\* prints the fallback message only and raises nothing.
C17_SuccessIffToolUseBlock ==
    \A k \in 1..5 :
        Answered(k) =>
            /\ SuccessBranch(k) <=> MatchingBlocks(k, response.content) # {}
            /\ MatchingBlocks(k, response.content) = {} =>
                  /\ results[ResultVar(k)] = None
                  /\ printed = <<Line(Fallback(k))>>
                  /\ cellError = "none"

Count(seq, t) == Cardinality({p \in 1..Len(seq) : seq[p].t = t})
Positions(seq, t) == {p \in 1..Len(seq) : seq[p].t = t}
\* The p-th position of seq holding a token t, in increasing order.
RECURSIVE NthPos(_, _, _)
NthPos(seq, t, k) ==
    LET first == CHOOSE p \in Positions(seq, t) :
                     \A q \in Positions(seq, t) : p <= q
    IN  IF k = 1 THEN first
        ELSE first + NthPos(SubSeq(seq, first + 1, Len(seq)), t, k - 1)

\* C18: the text format_results makes of the n strings of results_list is
\* one search_results element holding exactly n item elements, the k-th
\* with index attribute k and with the k-th string, unchanged, alone inside
\* its page_content; for n = 0 it is the empty search_results element.
C18_FormatResults ==
    (nb = "rag" /\ cell = 16) =>
      LET out == prompt.results
          n == Len(results_list)
      IN  /\ prompt.kind = "answer"
          /\ Count(out, "<search_results>") = 1
          /\ Count(out, "</search_results>") = 1
          /\ out[2].t = "<search_results>"
          /\ out[Len(out)].t = "</search_results>"
          /\ Count(out, "<item index=") = n
          /\ Count(out, "</item>") = n
          /\ Count(out, "<page_content>") = n
          /\ Count(out, "</page_content>") = n
          /\ Count(out, "text") = n
          /\ \A k \in 1..n :
               LET p == NthPos(out, "<item index=", k)
               IN  /\ out[p].v = k
                   /\ out[p + 2].t = "<page_content>"
                   /\ out[p + 4] = Txt("text", results_list[k])
                   /\ out[p + 6].t = "</page_content>"
                   /\ out[p + 8].t = "</item>"
                   /\ \A q \in {1, 3, 5, 7} : out[p + q].t = "\n"
          /\ n = 0 => out = <<Txt("\n", 0), Txt("<search_results>", 0),
                              Txt("\n", 0), Txt("\n", 0),
                              Txt("</search_results>", 0)>>

\* Six descriptions were formatted for the answer prompt.
C18_Witness ==
    /\ nb = "rag" /\ cell = 16
    /\ Len(results_list) = 6
    /\ Count(prompt.results, "<item index=") = 6
    /\ prompt.results[NthPos(prompt.results, "<item index=", 6) + 4]
          = Txt("text", results_list[6])

\* C19: whenever the flag done is set in the upload loop, and so whenever a
\* batch is upserted, res is the response of an embed call made for the
\* current batch: every vector sent carries the embedding of the text in
\* its own metadata, under the id of that text's position; while the flag is
\* not set res still holds the previous batch's response, which is never
\* sent with the current batch.
C19_ResOfCurrentBatch ==
    InUpload =>
      LET batch == descriptions_batch(descriptions, i)
      IN  /\ pc \in {"upsert", "upsert_wait"} => done
          /\ done =>
               /\ res.batch = i
               /\ res.embeddings =
                    [j \in 1..Len(batch) |-> [of |-> batch[j], as |-> "document"]]
          /\ ~done => res.batch = i - batch_size \/ (i = 0 /\ res.batch = -1)
          /\ \A r \in inflight :
               r.api = "upsert" =>
                 /\ Len(r.vectors) = Len(batch)
                 /\ \A j \in 1..Len(r.vectors) :
                      /\ r.vectors[j].values = res.embeddings[j]
                      /\ r.vectors[j].values.of = descriptions[i + j]
                      /\ r.vectors[j].metadata.description = descriptions[i + j]
                      /\ r.vectors[j].id = <<"description", i + j - 1>>

\* The second batch is being upserted with its own embeddings after an
\* embed failure was caught.
C19_Witness ==
    /\ InUpload /\ pc = "upsert_wait"
    /\ UpsertInFlight(batch_size)
    /\ res.batch = batch_size
    /\ fault.op = "upload_embed"
    /\ upserted = <<0>>

\* The upload cell was ended by an exception of index.upsert.
UpsertAborted ==
    /\ nb = "rag" /\ cell = 8 /\ pc = "done"
    /\ fault.op = "upsert"
C20_Inv ==
    UpsertAborted =>
      /\ ~fault.caught /\ cellError = fault.exc
      /\ inflight = {}
      /\ i % batch_size = 0 /\ i < Len(descriptions)
      /\ upserted = [j \in 1..(i \div batch_size) |-> (j - 1) * batch_size]
      /\ \A j \in 0..(i - 1) :
           {v \in pinecone.vectors : v.id = <<"description", j>>}
               = {TripleOf(j)}
      /\ \A v \in pinecone.vectors :
           (v.id[1] = "description" /\ v.id[2] >= i) => v \in StaleVectors
C20_Step ==
    /\ (InUpload /\ pc = "upsert_wait" /\ upserted' = upserted) =>
          /\ pc' = "done" /\ fault'.op = "upsert"
          /\ i' = i /\ pinecone' = pinecone
    /\ UpsertAborted =>
          UNCHANGED <<inflight, upserted, pinecone, i, res, done>>

\* C20: an exception of index.upsert for the batch at i is not caught and
\* not retried: it ends the upload cell at once; the batches before i, and
\* only they, have been upserted in this run, in order, and the index holds
\* their vectors; no vector of the batch at i or of a later batch has been
\* stored by this run (a failed upsert stores nothing), and no embed or
\* upsert request follows.
C20_UpsertFailureAborts == []C20_Inv /\ [][C20_Step]_vars

\* The upsert of the second batch raised after the first was stored.
C20_Witness ==
    /\ UpsertAborted
    /\ i = batch_size
    /\ upserted = <<0>>
    /\ TripleOf(0) \in pinecone.vectors
    /\ ~(TripleOf(batch_size) \in pinecone.vectors)
    /\ cellError \in ApiErrors

====
